---------------------------- MODULE Spec2Model ----------------------------
(***************************************************************************)
(* A model of mbbs: the Storage type (node directory and statistics), its  *)
(* snapshot file, and main()'s connect / configure / listen loop.          *)
(*                                                                         *)
(* Strings are TLA+ strings, joined with \o as format!() joins them.       *)
(* A u32 that can exceed 2^31 - 1 (a node number) is kept as two decimal   *)
(* limbs <<hi, lo>> standing for hi * 10^5 + lo, with lo < 10^5.           *)
(***************************************************************************)
EXTENDS Integers, Sequences, FiniteSets, TLC

VARIABLES
    pc,               \* where main() is: "load", "args", "connect", "configure",
                      \* "send", "recv", "disconnect", "exited"; "store" in StoreSpec,
                      \* "classify" and "closed" in ClassifySpec, "key" in KeySpec
    outcome,          \* "Running", or how the process ended: "Ok", "Err", "Killed"
    fault,            \* the failure main() met last, "none" before any
    cancelRequested,  \* the operator has asked the process to stop (Ctrl+C)
    stream,           \* the transport: "none", "open", "configured", "dropped", "disconnected"
    disconnectCalled, \* stream_api.disconnect() was called
    listening,        \* the receive loop was entered
    storage,          \* the in-memory Storage: [users, stats]
    file,             \* the content of storage.json
    now,              \* the clock, in seconds
    last_print,       \* main()'s last_print instant
    lastRecv,         \* when the loop last received an event (or was entered)
    lastSave,         \* how the last handled event's save went: "none", "ok", "create_err", "write_err"
    console,          \* the last "network>" line printed, "" before any
    nEvents,          \* events received so far
    lastEvent,        \* the frame the loop handled last, None before any
    upsertLog,        \* StoreSpec: the upserts made so far, in order
    calls,            \* StoreSpec: per stats key, the times of the insert_stat calls;
                      \* KeySpec: the same per (name, label) pair
    received,         \* ClassifySpec: what RecievedPacket::from made of the last frame
    frames            \* LoopSpec: the frames the loop has handled, in order

mainVars == <<pc, outcome, fault, cancelRequested, stream, disconnectCalled, listening,
              file, last_print, lastRecv, lastSave, console, lastEvent, received, frames>>
vars == <<pc, outcome, fault, cancelRequested, stream, disconnectCalled, listening,
          storage, file, now, last_print, lastRecv, lastSave, console, nEvents,
          lastEvent, upsertLog, calls, received, frames>>

(***************************************************************************)
(* Bounds of the model.                                                    *)
(***************************************************************************)
MaxEvents == 1      \* events main() receives in a run
MaxTicks == 1       \* clock steps in a run
MaxOps == 3         \* Storage operations in a StoreSpec run

(***************************************************************************)
(* Values.                                                                 *)
(***************************************************************************)
None == [some |-> FALSE]
Some(v) == [some |-> TRUE, value |-> v]

EmptyMap == [k \in {} |-> k]
MapInsert(m, k, v) == [x \in DOMAIN m \cup {k} |-> IF x = k THEN v ELSE m[x]]

LimbBase == 10^5
U32(n) == <<n \div LimbBase, n % LimbBase>>
BROADCAST == <<42949, 67295>>
NodeNums == {U32(7), BROADCAST}

UserAlice == [long_name |-> "Alice", short_name |-> "A"]
UserBob == [long_name |-> "Bob", short_name |-> "B"]
Users == {UserAlice, UserBob}

PrintInterval == 60
\* the clock moves in steps of five minutes
ClockStep == 5 * PrintInterval
Times == {t * ClockStep : t \in 0..MaxTicks}

TextMessageApp == 1
NodeinfoApp == 4
RoutingApp == 5
UnknownApp == 0
KnownPorts == {UnknownApp, TextMessageApp, NodeinfoApp, RoutingApp}
\* the port numbers frames carry here: three known ones and one PortNum does not name
PortNums == {TextMessageApp, NodeinfoApp, RoutingApp, 9999}

\* A payload is known by what the two decoders make of its bytes.
Payloads ==
    { [utf8 |-> Some("hi"), user |-> None],
      [utf8 |-> None, user |-> Some(UserAlice)],
      [utf8 |-> None, user |-> None] }

PayloadVariants ==
    {[kind |-> "None"], [kind |-> "Encrypted"]}
    \cup {[kind |-> "Decoded", portnum |-> p, payload |-> b,
            source |-> U32(0), dest |-> U32(0)] : p \in PortNums, b \in Payloads}

MeshPackets ==
    {[from |-> f, to |-> t, payload_variant |-> pv] :
        f \in NodeNums, t \in NodeNums, pv \in PayloadVariants}

FromRadios ==
    {[payload_variant |-> "None"], [payload_variant |-> "MyInfo"]}
    \cup {[payload_variant |-> "NodeInfo", num |-> n, user |-> u] :
            n \in NodeNums, u \in {None} \cup {Some(x) : x \in Users}}
    \cup {[payload_variant |-> "Packet", packet |-> p] : p \in MeshPackets}

(***************************************************************************)
(* format!("{}", u32)                                                      *)
(***************************************************************************)
Digit(d) ==
    CASE d = 0 -> "0" [] d = 1 -> "1" [] d = 2 -> "2" [] d = 3 -> "3" [] d = 4 -> "4"
      [] d = 5 -> "5" [] d = 6 -> "6" [] d = 7 -> "7" [] d = 8 -> "8" [] d = 9 -> "9"

RECURSIVE Decimal(_)
Decimal(n) == IF n < 10 THEN Digit(n) ELSE Decimal(n \div 10) \o Digit(n % 10)

RECURSIVE Padded(_, _)
Padded(n, width) ==
    IF width = 0 THEN "" ELSE Padded(n \div 10, width - 1) \o Digit(n % 10)

FormatU32(id) ==
    IF id[1] = 0 THEN Decimal(id[2]) ELSE Decimal(id[1]) \o Padded(id[2], 5)

(***************************************************************************)
(* Storage                                                                 *)
(***************************************************************************)
StorageNew == [users |-> EmptyMap, stats |-> EmptyMap]

\* a slip: the short name is returned for a known node
long_name_of_short(s, user_id) ==
    IF user_id \in DOMAIN s.users
    THEN s.users[user_id].short_name
    ELSE FormatU32(user_id)

long_name_of(s, user_id) ==
    IF user_id \in DOMAIN s.users
    THEN s.users[user_id].long_name
    ELSE FormatU32(user_id)

users_insert(s, id, user) == [s EXCEPT !.users = MapInsert(@, id, user)]

StatKey(name, info) == name \o ":" \o info

\* a slip: an existing entry keeps its old timestamp
insert_stat_stale(s, from, info, secs) ==
    LET key == StatKey(long_name_of(s, from), info)
    IN  IF key \in DOMAIN s.stats
        THEN [s EXCEPT !.stats = MapInsert(@, key, <<@[key][1] + 1, @[key][2]>>)]
        ELSE [s EXCEPT !.stats = MapInsert(@, key, <<1, secs>>)]

\* entry.0 is a u32; the runs here stay far below its limit.
insert_stat(s, from, info, secs) ==
    LET key == StatKey(long_name_of(s, from), info)
    IN  IF key \in DOMAIN s.stats
        THEN [s EXCEPT !.stats = MapInsert(@, key, <<@[key][1] + 1, secs>>)]
        ELSE [s EXCEPT !.stats = MapInsert(@, key, <<1, secs>>)]

(***************************************************************************)
(* The snapshot file: serde_json writes the users' u32 keys as decimal     *)
(* strings, kept here as sequences of digits, and parses them back.        *)
(***************************************************************************)
RECURSIVE DigitsOf(_)
DigitsOf(n) == IF n < 10 THEN <<n>> ELSE Append(DigitsOf(n \div 10), n % 10)

RECURSIVE PaddedDigits(_, _)
PaddedDigits(n, width) ==
    IF width = 0 THEN <<>> ELSE Append(PaddedDigits(n \div 10, width - 1), n % 10)

\* a key as the file holds it: the decimal digits of the u32
KeyDigits(id) ==
    IF id[1] = 0 THEN DigitsOf(id[2]) ELSE DigitsOf(id[1]) \o PaddedDigits(id[2], 5)

\* str::parse::<u32> on a key: digit by digit, the carry going to the high limb
RECURSIVE ParseU32(_)
ParseU32(digits) ==
    IF digits = <<>>
    THEN U32(0)
    ELSE LET r == ParseU32(SubSeq(digits, 1, Len(digits) - 1))
             v == r[2] * 10 + digits[Len(digits)]
         IN  <<r[1] * 10 + v \div LimbBase, v % LimbBase>>

Serialize(s) ==
    [kind |-> "json",
     users |-> [k \in {KeyDigits(n) : n \in DOMAIN s.users} |->
                   s.users[CHOOSE n \in DOMAIN s.users : KeyDigits(n) = k]],
     stats |-> s.stats]

\* a slip: a key is read into the low limb alone
Deserialize_low(f) ==
    [users |-> [n \in {<<0, ParseU32(k)[2]>> : k \in DOMAIN f.users} |->
                   f.users[CHOOSE k \in DOMAIN f.users : <<0, ParseU32(k)[2]>> = n]],
     stats |-> f.stats]

Deserialize(f) ==
    [users |-> [n \in {ParseU32(k) : k \in DOMAIN f.users} |->
                   f.users[CHOOSE k \in DOMAIN f.users : ParseU32(k) = n]],
     stats |-> f.stats]

\* File::open fails: a new Storage. It opens and serde_json fails: the error.
load(f) ==
    CASE f.kind \in {"absent", "unreadable"} -> [ok |-> TRUE, storage |-> StorageNew]
      [] f.kind = "corrupt" -> [ok |-> FALSE, storage |-> StorageNew]
      [] f.kind = "json" -> [ok |-> TRUE, storage |-> Deserialize(f)]

\* File::create truncates the file before serde_json writes to it.
SaveOutcomes == {"ok", "create_err", "write_err"}
save(s, f, io) ==
    CASE io = "ok" -> [ok |-> TRUE, file |-> Serialize(s)]
      [] io = "create_err" -> [ok |-> FALSE, file |-> f]
      [] io = "write_err" -> [ok |-> FALSE, file |-> [kind |-> "corrupt"]]

SampleStorage ==
    [users |-> MapInsert(EmptyMap, U32(7), UserBob),
     stats |-> MapInsert(EmptyMap, StatKey("Bob", "Encrypted"), <<1, 0>>)]

InitialFiles ==
    {[kind |-> "absent"], [kind |-> "unreadable"], [kind |-> "corrupt"],
     Serialize(SampleStorage)}

(***************************************************************************)
(* The dispatch inside main()'s loop.                                      *)
(***************************************************************************)
PortNumTryFrom(n) == IF n \in KnownPorts THEN n ELSE UnknownApp

as_str_name(port) ==
    CASE port = TextMessageApp -> "TEXT_MESSAGE_APP"
      [] port = NodeinfoApp -> "NODEINFO_APP"
      [] port = RoutingApp -> "ROUTING_APP"
      [] OTHER -> "UNKNOWN_APP"

DecodedInfo(s, mesh_packet, decoded) ==
    LET port_num == PortNumTryFrom(decoded.portnum)
    IN  CASE port_num = TextMessageApp ->
               [storage |-> s,
                info |-> "TextMessageApp: " \o
                         (IF decoded.payload.utf8.some
                          THEN decoded.payload.utf8.value ELSE "Non-utf8 msg")]
          [] port_num = NodeinfoApp ->
               IF decoded.payload.user.some
               THEN [storage |-> users_insert(s, mesh_packet.from, decoded.payload.user.value),
                     info |-> "NodeinfoApp: " \o decoded.payload.user.value.long_name]
               ELSE [storage |-> s, info |-> "NodeInfoDecodeErr"]
          [] OTHER -> [storage |-> s, info |-> as_str_name(port_num)]

\* a slip: an encrypted packet gets the empty label of a packet with no payload
PacketInfo_unlabelled(s, mesh_packet) ==
    LET pv == mesh_packet.payload_variant
    IN  CASE pv.kind = "Decoded" -> DecodedInfo(s, mesh_packet, pv)
          [] pv.kind = "Encrypted" -> [storage |-> s, info |-> ""]
          [] pv.kind = "None" -> [storage |-> s, info |-> ""]

PacketInfo(s, mesh_packet) ==
    LET pv == mesh_packet.payload_variant
    IN  CASE pv.kind = "Decoded" -> DecodedInfo(s, mesh_packet, pv)
          [] pv.kind = "Encrypted" -> [storage |-> s, info |-> "Encrypted"]
          [] pv.kind = "None" -> [storage |-> s, info |-> ""]

NetworkLine(s, mesh_packet, info) ==
    "network> " \o long_name_of(s, mesh_packet.from) \o " -> "
    \o (IF mesh_packet.to = BROADCAST THEN "Broadcast" ELSE long_name_of(s, mesh_packet.to))
    \o " snr:0 hop:0(0) " \o info

\* One Packet frame: label it, count it, print it, save.
\* a slip: the packet is counted under the name its sender had before the
\* port's handler ran
\* a slip: a packet with no payload variant is printed but not counted
HandlePacket_skip(s, mesh_packet, secs) ==
    LET r == PacketInfo(s, mesh_packet)
        counted == IF mesh_packet.payload_variant.kind = "None"
                   THEN r.storage
                   ELSE insert_stat(r.storage, mesh_packet.from, r.info, secs)
    IN  [storage |-> counted, info |-> r.info,
         line |-> NetworkLine(counted, mesh_packet, r.info)]

HandlePacket_early(s, mesh_packet, secs) ==
    LET r == PacketInfo(s, mesh_packet)
        counted == [r.storage EXCEPT
                       !.stats = insert_stat(s, mesh_packet.from, r.info, secs).stats]
    IN  [storage |-> counted, info |-> r.info,
         line |-> NetworkLine(counted, mesh_packet, r.info)]

HandlePacket(s, mesh_packet, secs) ==
    LET r == PacketInfo(s, mesh_packet)
        counted == insert_stat(r.storage, mesh_packet.from, r.info, secs)
    IN  [storage |-> counted, info |-> r.info,
         line |-> NetworkLine(counted, mesh_packet, r.info)]

HandleNodeInfo(s, node_info) ==
    IF node_info.user.some THEN users_insert(s, node_info.num, node_info.user.value) ELSE s

(***************************************************************************)
(* main()                                                                  *)
(***************************************************************************)
Init ==
    /\ pc = "load"
    /\ outcome = "Running"
    /\ fault = "none"
    /\ cancelRequested = FALSE
    /\ stream = "none"
    /\ disconnectCalled = FALSE
    /\ listening = FALSE
    /\ storage = StorageNew
    /\ file \in InitialFiles
    /\ now = 0
    /\ last_print = 0
    /\ lastRecv = 0
    /\ lastSave = "none"
    /\ console = ""
    /\ nEvents = 0
    /\ lastEvent = None
    /\ upsertLog = <<>>
    /\ calls = EmptyMap
    /\ received = None
    /\ frames = <<>>

\* main() returns (out = "Ok" or "Err"); the stream it holds is dropped with it.
Return(out, why) ==
    /\ pc' = "exited"
    /\ outcome' = out
    /\ fault' = why

Load ==
    /\ pc = "load"
    /\ LET r == load(file)
       IN  IF r.ok
           THEN /\ storage' = r.storage
                /\ pc' = "args"
                /\ UNCHANGED <<outcome, fault>>
           ELSE /\ Return("Err", "LoadError")
                /\ UNCHANGED storage
    /\ UNCHANGED <<cancelRequested, stream, disconnectCalled, listening, file, now,
                   last_print, lastRecv, lastSave, console, nEvents, lastEvent, upsertLog, calls,
                   received, frames>>

ArgsDevice ==
    /\ pc = "args"
    /\ pc' = "connect"
    /\ UNCHANGED <<outcome, fault, cancelRequested, stream, disconnectCalled, listening,
                   storage, file, now, last_print, lastRecv, lastSave, console, nEvents, lastEvent,
                   upsertLog, calls,
                   received, frames>>

ArgsScan ==
    /\ pc = "args"
    /\ \E ok \in BOOLEAN :
          IF ok THEN Return("Ok", fault) ELSE Return("Err", "ScanError")
    /\ UNCHANGED <<cancelRequested, stream, disconnectCalled, listening,
                   storage, file, now, last_print, lastRecv, lastSave, console, nEvents, lastEvent,
                   upsertLog, calls,
                   received, frames>>

Connect ==
    /\ pc = "connect"
    /\ \E ok \in BOOLEAN :
          IF ok
          THEN /\ stream' = "open"
               /\ pc' = "configure"
               /\ UNCHANGED <<outcome, fault>>
          ELSE /\ Return("Err", "ConnectError")
               /\ UNCHANGED stream
    /\ UNCHANGED <<cancelRequested, disconnectCalled, listening,
                   storage, file, now, last_print, lastRecv, lastSave, console, nEvents, lastEvent,
                   upsertLog, calls,
                   received, frames>>

Configure ==
    /\ pc = "configure"
    /\ \E ok \in BOOLEAN :
          IF ok
          THEN /\ stream' = "configured"
               /\ pc' = "send"
               /\ UNCHANGED <<outcome, fault>>
          ELSE /\ Return("Err", "ConfigureError")
               /\ stream' = "dropped"
    /\ UNCHANGED <<cancelRequested, disconnectCalled, listening,
                   storage, file, now, last_print, lastRecv, lastSave, console, nEvents, lastEvent,
                   upsertLog, calls,
                   received, frames>>

\* send_to_meshtastic, then the loop is entered
Send ==
    /\ pc = "send"
    /\ \E ok \in BOOLEAN :
          IF ok
          THEN /\ pc' = "recv"
               /\ listening' = TRUE
               /\ last_print' = now
               /\ lastRecv' = now
               /\ UNCHANGED <<outcome, fault, stream>>
          ELSE /\ Return("Err", "SendError")
               /\ stream' = "dropped"
               /\ UNCHANGED <<listening, last_print, lastRecv>>
    /\ UNCHANGED <<cancelRequested, disconnectCalled,
                   storage, file, now, lastSave, console, nEvents, lastEvent, upsertLog, calls,
                   received, frames>>

\* a frame with no payload variant, or a variant the match ignores
RecvIgnored ==
    /\ pc = "recv"
    /\ nEvents < MaxEvents
    /\ \E decoded \in FromRadios :
          /\ decoded.payload_variant \in {"None", "MyInfo"}
          /\ lastEvent' = Some(decoded)
    /\ nEvents' = nEvents + 1
    /\ lastRecv' = now
    /\ lastSave' = "none"
    /\ UNCHANGED <<pc, outcome, fault, cancelRequested, stream, disconnectCalled,
                   listening, storage, file, now, last_print, console, upsertLog, calls,
                   received, frames>>

RecvNodeInfo ==
    /\ pc = "recv"
    /\ nEvents < MaxEvents
    /\ \E decoded \in FromRadios :
          /\ decoded.payload_variant = "NodeInfo"
          /\ storage' = HandleNodeInfo(storage, decoded)
          /\ lastEvent' = Some(decoded)
    /\ nEvents' = nEvents + 1
    /\ lastRecv' = now
    /\ lastSave' = "none"
    /\ UNCHANGED <<pc, outcome, fault, cancelRequested, stream, disconnectCalled,
                   listening, file, now, last_print, console, upsertLog, calls,
                   received, frames>>

RecvPacket ==
    /\ pc = "recv"
    /\ nEvents < MaxEvents
    /\ \E decoded \in FromRadios, io \in SaveOutcomes :
          /\ decoded.payload_variant = "Packet"
          /\ lastEvent' = Some(decoded)
          /\ LET h == HandlePacket(storage, decoded.packet, now)
                 w == save(h.storage, file, io)
             IN  /\ storage' = h.storage
                 /\ console' = h.line
                 /\ file' = w.file
                 /\ lastSave' = io
                 /\ IF w.ok
                    THEN UNCHANGED <<pc, outcome, fault, stream>>
                    ELSE /\ Return("Err", "SaveError")
                         /\ stream' = "dropped"
    /\ last_print' = IF now - last_print > PrintInterval THEN now ELSE last_print
    /\ nEvents' = nEvents + 1
    /\ lastRecv' = now
    /\ UNCHANGED <<cancelRequested, disconnectCalled, listening, now, upsertLog, calls,
                   received, frames>>

\* recv() yields nothing more: the loop ends
RecvClosed ==
    /\ pc = "recv"
    /\ pc' = "disconnect"
    /\ fault' = "StreamClosed"
    /\ UNCHANGED <<outcome, cancelRequested, stream, disconnectCalled, listening,
                   storage, file, now, last_print, lastRecv, lastSave, console, nEvents, lastEvent,
                   upsertLog, calls,
                   received, frames>>

Disconnect ==
    /\ pc = "disconnect"
    /\ disconnectCalled' = TRUE
    /\ \E ok \in BOOLEAN :
          IF ok
          THEN /\ Return("Ok", fault)
               /\ stream' = "disconnected"
          ELSE /\ Return("Err", "DisconnectError")
               /\ stream' = "dropped"
    /\ UNCHANGED <<cancelRequested, listening,
                   storage, file, now, last_print, lastRecv, lastSave, console, nEvents, lastEvent,
                   upsertLog, calls,
                   received, frames>>

\* time passes
Tick ==
    /\ pc \notin {"exited", "store"}
    /\ now + ClockStep \in Times
    /\ now' = now + ClockStep
    /\ UNCHANGED <<pc, outcome, fault, cancelRequested, stream, disconnectCalled,
                   listening, storage, file, last_print, lastRecv, lastSave, console,
                   nEvents, lastEvent, upsertLog, calls,
                   received, frames>>

\* Ctrl+C: main() installs no handler, so the signal ends the process where it is.
CtrlC ==
    /\ pc \notin {"exited", "store"}
    /\ cancelRequested' = TRUE
    /\ pc' = "exited"
    /\ outcome' = "Killed"
    /\ stream' = IF stream \in {"open", "configured"} THEN "dropped" ELSE stream
    /\ UNCHANGED <<fault, disconnectCalled, listening, storage, file, now, last_print,
                   lastRecv, lastSave, console, nEvents, lastEvent, upsertLog, calls,
                   received, frames>>

Next ==
    \/ Load
    \/ ArgsDevice
    \/ ArgsScan
    \/ Connect
    \/ Configure
    \/ Send
    \/ RecvIgnored
    \/ RecvNodeInfo
    \/ RecvPacket
    \/ RecvClosed
    \/ Disconnect
    \/ Tick
    \/ CtrlC

Spec == Init /\ [][Next]_vars

(***************************************************************************)
(* Storage on its own: a new Storage, then upserts and insert_stat calls   *)
(* in any order, with the clock moving between them.                       *)
(***************************************************************************)
StoreInfos == {"Encrypted", "TextMessageApp: hi"}

StoreInit ==
    /\ pc = "store"
    /\ outcome = "Running"
    /\ fault = "none"
    /\ cancelRequested = FALSE
    /\ stream = "none"
    /\ disconnectCalled = FALSE
    /\ listening = FALSE
    /\ storage = StorageNew
    /\ file = [kind |-> "absent"]
    /\ now = 0
    /\ last_print = 0
    /\ lastRecv = 0
    /\ lastSave = "none"
    /\ console = ""
    /\ nEvents = 0
    /\ lastEvent = None
    /\ upsertLog = <<>>
    /\ calls = EmptyMap
    /\ received = None
    /\ frames = <<>>

StoreUpsert ==
    /\ pc = "store"
    /\ nEvents < MaxOps
    /\ \E id \in NodeNums, user \in Users :
          /\ storage' = users_insert(storage, id, user)
          /\ upsertLog' = Append(upsertLog, <<id, user>>)
    /\ nEvents' = nEvents + 1
    /\ UNCHANGED <<mainVars, now, calls>>

StoreInsertStat ==
    /\ pc = "store"
    /\ nEvents < MaxOps
    /\ \E from \in NodeNums, info \in StoreInfos :
          LET key == StatKey(long_name_of(storage, from), info)
          IN  /\ storage' = insert_stat(storage, from, info, now)
              /\ calls' = MapInsert(calls, key,
                              Append(IF key \in DOMAIN calls THEN calls[key] ELSE <<>>, now))
    /\ nEvents' = nEvents + 1
    /\ UNCHANGED <<mainVars, now, upsertLog>>

StoreTick ==
    /\ pc = "store"
    /\ now + ClockStep \in Times
    /\ now' = now + ClockStep
    /\ UNCHANGED <<mainVars, storage, nEvents, upsertLog, calls>>

\* storage.save() on the Storage as it is
StoreSave ==
    /\ pc = "store"
    /\ nEvents < MaxOps
    /\ file' = save(storage, file, "ok").file
    /\ nEvents' = nEvents + 1
    /\ UNCHANGED <<pc, outcome, fault, cancelRequested, stream, disconnectCalled, listening,
                   storage, now, last_print, lastRecv, lastSave, console, lastEvent,
                   upsertLog, calls, received, frames>>

StoreNext ==
    \/ StoreUpsert
    \/ StoreInsertStat
    \/ StoreSave
    \/ StoreTick

StoreSpec == StoreInit /\ [][StoreNext]_vars

(***************************************************************************)
(* Claims                                                                  *)
(***************************************************************************)
SessionFaults == {"ConnectError", "ConfigureError", "SaveError", "StreamClosed"}

\* C1: the lifecycle never ends because of a fault: once a connect failure, a
\* configure failure, a dispatch-level error or a closed stream has occurred,
\* the process is terminated only if cancellation was requested.
C1_NeverEndsOnFault ==
    (pc = "exited" /\ fault \in SessionFaults) => cancelRequested

\* C2: a session does not stay in Listening once 300 s have passed with no
\* event received.
C2_IdleTimeout ==
    pc = "recv" => now - lastRecv < 300

\* C3: when cancellation is requested while the loop is listening, the loop
\* itself exits with the clean Cancelled outcome: the program leaves the loop
\* and releases the stream, rather than being killed where it stands.
C3_CancelExitsCleanly ==
    (cancelRequested /\ listening) => (outcome # "Killed" /\ disconnectCalled)

\* C4: Listening is entered only with the transport opened and configured, and
\* a session that was listening and ended (other than by the operator's
\* request) has released the stream with disconnect.
C4_OrderedAndReleased ==
    /\ pc = "recv" => stream = "configured"
    /\ (listening /\ pc = "exited" /\ ~cancelRequested) => disconnectCalled

\* The long name of the latest upsert for n in the log, None when there is none.
RECURSIVE LastUpsert(_, _)
LastUpsert(log, n) ==
    IF log = <<>> THEN None
    ELSE IF log[Len(log)][1] = n THEN Some(log[Len(log)][2])
    ELSE LastUpsert(SubSeq(log, 1, Len(log) - 1), n)

DecimalOf == (U32(7) :> "7") @@ (BROADCAST :> "4294967295")

\* C5: after any sequence of upserts, lookup(n) is the decimal string of n when n
\* was never upserted and otherwise the long name of the latest upsert for n,
\* whose whole record is the one stored.
C5_Lookup ==
    pc = "store" =>
        \A n \in NodeNums :
            LET last == LastUpsert(upsertLog, n)
            IN  IF last.some
                THEN /\ long_name_of(storage, n) = last.value.long_name
                     /\ n \in DOMAIN storage.users
                     /\ storage.users[n] = last.value
                ELSE /\ long_name_of(storage, n) = DecimalOf[n]
                     /\ n \notin DOMAIN storage.users

C5_Witness ==
    /\ pc = "store"
    /\ Len(upsertLog) = 3
    /\ upsertLog[1] = <<U32(7), UserAlice>>
    /\ upsertLog[2] = <<U32(7), UserBob>>
    /\ upsertLog[3] = <<U32(7), UserBob>>
    /\ long_name_of(storage, U32(7)) = "Bob"
    /\ long_name_of(storage, BROADCAST) = "4294967295"

\* C6: every stats entry holds the number of insert_stat calls made for its key
\* and the time of the last of them, and only the keys that were incremented
\* have entries.
C6_Increment ==
    pc = "store" =>
        /\ DOMAIN storage.stats = DOMAIN calls
        /\ \A k \in DOMAIN calls :
              storage.stats[k] = <<Len(calls[k]), calls[k][Len(calls[k])]>>

C6_Witness ==
    /\ pc = "store"
    /\ "7:Encrypted" \in DOMAIN storage.stats
    /\ storage.stats["7:Encrypted"] = <<2, ClockStep>>
    /\ calls["7:Encrypted"] = <<0, ClockStep>>
    /\ Cardinality(DOMAIN storage.stats) = 2

IsEncrypted(ev) ==
    /\ ev.some
    /\ ev.value.payload_variant = "Packet"
    /\ ev.value.packet.payload_variant.kind = "Encrypted"

C8_SnapshotCurrent ==
    pc = "recv" => (load(file).ok /\ load(file).storage = storage)

\* C9: an event whose snapshot write failed leaves the loop waiting for the
\* next event.
C9_SaveFailureContained ==
    [][(nEvents' = nEvents + 1 /\ lastSave' \in {"create_err", "write_err"})
         => pc' = "recv"]_vars

\* C10: startup never fails on the snapshot: with the file absent, unreadable
\* or corrupt, load yields an empty Storage and main goes on.
C10_LoadNeverFails ==
    /\ fault # "LoadError"
    /\ (pc = "args" /\ file.kind \in {"absent", "unreadable", "corrupt"})
          => storage = StorageNew

(***************************************************************************)
(* The sentinel address.                                                   *)
(***************************************************************************)
\* the node numbers the Packet arm hands to long_name_of: from, for the
\* stats key and the printed line, and to unless it is 0xffffffff
LookedUp(mesh_packet) ==
    {mesh_packet.from} \cup (IF mesh_packet.to = BROADCAST THEN {} ELSE {mesh_packet.to})

\* C11: the sentinel 0xffffffff is never a key of the Directory and is never
\* passed to long_name_of, whatever events have come in.
C11_SentinelKeptOut ==
    /\ BROADCAST \notin DOMAIN storage.users
    /\ (lastEvent.some /\ lastEvent.value.payload_variant = "Packet")
          => BROADCAST \notin LookedUp(lastEvent.value.packet)

(***************************************************************************)
(* Packets on the NodeInfo port.                                           *)
(***************************************************************************)
IsNodeinfoPort(ev) ==
    /\ ev.some
    /\ ev.value.payload_variant = "Packet"
    /\ ev.value.packet.payload_variant.kind = "Decoded"
    /\ ev.value.packet.payload_variant.portnum = NodeinfoApp

IsNodeinfoDecodable(ev) ==
    /\ IsNodeinfoPort(ev)
    /\ ev.value.packet.payload_variant.payload.user.some

\* C16: a NodeInfo-port packet whose User decodes is counted after the upsert:
\* the entry incremented is "<new long name>:NodeinfoApp: <new long name>",
\* stamped with the current time, and no entry under the sender's previous
\* name or decimal id is created or changed.
C16_CountedUnderNewName ==
    [][(nEvents' = nEvents + 1 /\ IsNodeinfoDecodable(lastEvent'))
         => LET p == lastEvent'.value.packet
                user == p.payload_variant.payload.user.value
                key == user.long_name \o ":NodeinfoApp: " \o user.long_name
                before == IF key \in DOMAIN storage.stats THEN storage.stats[key][1] ELSE 0
            IN  /\ storage'.users[p.from] = user
                /\ DOMAIN storage'.stats = DOMAIN storage.stats \cup {key}
                /\ storage'.stats[key] = <<before + 1, now>>
                /\ \A k \in DOMAIN storage.stats \ {key} :
                      storage'.stats[k] = storage.stats[k]]_vars

\* node 7 was Bob in the snapshot and announces itself as Alice
C16_Witness ==
    /\ pc = "recv"
    /\ IsNodeinfoDecodable(lastEvent)
    /\ lastEvent.value.packet.from = U32(7)
    /\ storage.users = MapInsert(EmptyMap, U32(7), UserAlice)
    /\ DOMAIN storage.stats = {"Bob:Encrypted", "Alice:NodeinfoApp: Alice"}
    /\ storage.stats["Alice:NodeinfoApp: Alice"] = <<1, ClockStep>>

\* C14: a NodeInfo-port packet whose payload decodes as a User upserts the
\* Directory under the packet's from; one whose payload does not decode leaves
\* the Directory as it was, raises no error, and the loop waits for the next
\* event.
C14_NodeInfoPort ==
    [][(nEvents' = nEvents + 1 /\ IsNodeinfoPort(lastEvent'))
         => LET p == lastEvent'.value.packet
                user == p.payload_variant.payload.user
            IN  IF user.some
                THEN storage'.users = MapInsert(storage.users, p.from, user.value)
                ELSE /\ storage'.users = storage.users
                     /\ fault' = fault
                     /\ pc' = "recv"]_vars

\* C15: a snapshot that save has just written loads without error into a
\* Storage with the same users (keys and records) and the same stats (keys,
\* counts and timestamps) as the one saved.
C15_RoundTrip ==
    [][(pc = "store" /\ file' # file)
         => (load(file').ok /\ load(file').storage = storage)]_vars

\* a saved Storage with a ten-digit key and a counted entry
C15_Witness ==
    /\ pc = "store"
    /\ file.kind = "json"
    /\ DOMAIN storage.users = {BROADCAST}
    /\ DOMAIN file.users = {<<4, 2, 9, 4, 9, 6, 7, 2, 9, 5>>}
    /\ DOMAIN storage.stats # {}
    /\ load(file).storage = storage

(***************************************************************************)
(* The receive loop by itself: it has just been entered with a new Storage *)
(* and no snapshot file, every save succeeds, and the frames handled are   *)
(* recorded.                                                               *)
(***************************************************************************)
MaxFrames == 3      \* frames the loop handles in a LoopSpec run

TextData(text) ==
    [kind |-> "Decoded", portnum |-> TextMessageApp,
     payload |-> [utf8 |-> Some(text), user |-> None],
     source |-> U32(0), dest |-> U32(0)]

PacketFrame(from, to, pv) ==
    [payload_variant |-> "Packet",
     packet |-> [from |-> from, to |-> to, payload_variant |-> pv]]

NodeInfoFrame(num, user) == [payload_variant |-> "NodeInfo", num |-> num, user |-> user]

LoopFrames ==
    {[payload_variant |-> "None"],
     NodeInfoFrame(U32(7), Some(UserAlice)),
     NodeInfoFrame(U32(7), None),
     PacketFrame(U32(7), BROADCAST, TextData("hi")),
     PacketFrame(U32(7), BROADCAST, TextData("yo")),
     PacketFrame(U32(7), U32(7), [kind |-> "Encrypted"]),
     PacketFrame(U32(7), BROADCAST, [kind |-> "None"])}

LoopInit ==
    /\ pc = "recv"
    /\ outcome = "Running"
    /\ fault = "none"
    /\ cancelRequested = FALSE
    /\ stream = "configured"
    /\ disconnectCalled = FALSE
    /\ listening = TRUE
    /\ storage = StorageNew
    /\ file = [kind |-> "absent"]
    /\ now = 0
    /\ last_print = 0
    /\ lastRecv = 0
    /\ lastSave = "none"
    /\ console = ""
    /\ nEvents = 0
    /\ lastEvent = None
    /\ upsertLog = <<>>
    /\ calls = EmptyMap
    /\ received = None
    /\ frames = <<>>

\* one iteration of the loop on one frame
LoopRecv ==
    /\ pc = "recv"
    /\ Len(frames) < MaxFrames
    /\ \E decoded \in LoopFrames :
          /\ frames' = Append(frames, decoded)
          /\ lastEvent' = Some(decoded)
          /\ CASE decoded.payload_variant = "NodeInfo" ->
                    /\ storage' = HandleNodeInfo(storage, decoded)
                    /\ lastSave' = "none"
                    /\ UNCHANGED <<console, file, last_print>>
               [] decoded.payload_variant = "Packet" ->
                    LET h == HandlePacket(storage, decoded.packet, now)
                    IN  /\ storage' = h.storage
                        /\ console' = h.line
                        /\ file' = save(h.storage, file, "ok").file
                        /\ lastSave' = "ok"
                        /\ last_print' = IF now - last_print > PrintInterval
                                         THEN now ELSE last_print
               [] OTHER ->
                    /\ lastSave' = "none"
                    /\ UNCHANGED <<storage, console, file, last_print>>
    /\ nEvents' = nEvents + 1
    /\ lastRecv' = now
    /\ UNCHANGED <<pc, outcome, fault, cancelRequested, stream, disconnectCalled,
                   listening, now, upsertLog, calls, received>>

LoopNext ==
    \/ LoopRecv
    \/ Tick

LoopSpec == LoopInit /\ [][LoopNext]_vars

IsText(ev) ==
    /\ ev.some
    /\ ev.value.payload_variant = "Packet"
    /\ ev.value.packet.payload_variant.kind = "Decoded"
    /\ ev.value.packet.payload_variant.portnum = TextMessageApp

\* C12: each Decoded text message puts out exactly the notification
\* "<name of from> : <text> (<name of to>)", the names being the Directory's
\* and a 0xffffffff destination reading BROADCAST; "Alice : hi (BROADCAST)"
\* for "hi" from node 7 to everyone once node 7 is known as Alice.
C12_Notification ==
    [][(Len(frames') = Len(frames) + 1 /\ IsText(lastEvent'))
         => LET p == lastEvent'.value.packet
                text == p.payload_variant.payload.utf8
                Name(n) == IF n \in DOMAIN storage.users
                           THEN storage.users[n].long_name ELSE DecimalOf[n]
            IN  console' = Name(p.from) \o " : "
                    \o (IF text.some THEN text.value ELSE "Non-utf8 msg")
                    \o " (" \o (IF p.to = BROADCAST THEN "BROADCAST" ELSE Name(p.to)) \o ")"]_vars

IsTextFrom(frame, from) ==
    /\ IsText(Some(frame))
    /\ frame.packet.from = from

\* C13: two text messages of one sender are counted in one Stats entry,
\* whatever their texts: once node 7 is known as Alice and has sent two, the
\* Stats hold one entry, with count 2 and the time of the second.
C13_OneEntryPerSenderAndLabel ==
    (/\ pc = "recv"
     /\ Len(frames) = 3
     /\ frames[1] = NodeInfoFrame(U32(7), Some(UserAlice))
     /\ IsTextFrom(frames[2], U32(7))
     /\ IsTextFrom(frames[3], U32(7)))
        => \E k \in DOMAIN storage.stats :
              /\ DOMAIN storage.stats = {k}
              /\ storage.stats[k] = <<2, lastRecv>>

RECURSIVE SumCounts(_, _)
SumCounts(stats, keys) ==
    IF keys = {}
    THEN 0
    ELSE LET k == CHOOSE x \in keys : TRUE
         IN  stats[k][1] + SumCounts(stats, keys \ {k})

PacketFrames(fs) == {i \in 1..Len(fs) : fs[i].payload_variant = "Packet"}

MaxClassified == 2  \* frames classified in a ClassifySpec run

\* a slip: a NodeInfo-port packet is filed under the Data's source, as the
\* text message is, and not under the packet's from
RecievedPacketFrom_source(from_radio) ==
    IF ~from_radio.some
    THEN [kind |-> "ConnectionClosed"]
    ELSE LET payload == from_radio.value
         IN  CASE payload.payload_variant = "None" -> [kind |-> "Other"]
               [] payload.payload_variant = "MyInfo" -> [kind |-> "MyInfo"]
               [] payload.payload_variant = "NodeInfo" ->
                    IF payload.user.some
                    THEN [kind |-> "NodeInfo", id |-> payload.num, user |-> payload.user.value]
                    ELSE [kind |-> "Other"]
               [] payload.payload_variant = "Packet" ->
                    LET recv_packet == payload.packet
                        data == recv_packet.payload_variant
                    IN  IF data.kind # "Decoded"
                        THEN [kind |-> "Other"]
                        ELSE CASE data.portnum = RoutingApp ->
                                    [kind |-> "RoutingApp", data |-> data]
                               [] data.portnum = TextMessageApp ->
                                    [kind |-> "TextMessage",
                                     from |-> data.source,
                                     to |-> data.dest,
                                     msg |-> IF data.payload.utf8.some
                                             THEN data.payload.utf8.value
                                             ELSE "Non-utf8 msg"]
                               [] data.portnum = NodeinfoApp ->
                                    IF data.payload.user.some
                                    THEN [kind |-> "NodeInfo", id |-> data.source,
                                          user |-> data.payload.user.value]
                                    ELSE [kind |-> "Other"]
                               [] OTHER -> [kind |-> "Other"]

RecievedPacketFrom(from_radio) ==
    IF ~from_radio.some
    THEN [kind |-> "ConnectionClosed"]
    ELSE LET payload == from_radio.value
         IN  CASE payload.payload_variant = "None" -> [kind |-> "Other"]
               [] payload.payload_variant = "MyInfo" -> [kind |-> "MyInfo"]
               [] payload.payload_variant = "NodeInfo" ->
                    IF payload.user.some
                    THEN [kind |-> "NodeInfo", id |-> payload.num, user |-> payload.user.value]
                    ELSE [kind |-> "Other"]
               [] payload.payload_variant = "Packet" ->
                    LET recv_packet == payload.packet
                        data == recv_packet.payload_variant
                    IN  IF data.kind # "Decoded"
                        THEN [kind |-> "Other"]
                        ELSE CASE data.portnum = RoutingApp ->
                                    [kind |-> "RoutingApp", data |-> data]
                               [] data.portnum = TextMessageApp ->
                                    [kind |-> "TextMessage",
                                     from |-> data.source,
                                     to |-> data.dest,
                                     msg |-> IF data.payload.utf8.some
                                             THEN data.payload.utf8.value
                                             ELSE "Non-utf8 msg"]
                               [] data.portnum = NodeinfoApp ->
                                    IF data.payload.user.some
                                    THEN [kind |-> "NodeInfo", id |-> recv_packet.from,
                                          user |-> data.payload.user.value]
                                    ELSE [kind |-> "Other"]
                               [] OTHER -> [kind |-> "Other"]

\* Data with its own source and dest: 0 and 0 as a radio leaves them for a
\* packet heard directly, or set
ClassifyDatas ==
    {[kind |-> "Decoded", portnum |-> p, payload |-> b, source |-> sd[1], dest |-> sd[2]] :
        p \in PortNums, b \in Payloads, sd \in {<<U32(0), U32(0)>>, <<BROADCAST, U32(7)>>}}

ClassifyFrames ==
    {[payload_variant |-> "None"], [payload_variant |-> "MyInfo"],
     NodeInfoFrame(U32(7), Some(UserBob)),
     NodeInfoFrame(U32(7), None),
     PacketFrame(U32(7), BROADCAST, [kind |-> "None"]),
     PacketFrame(U32(7), BROADCAST, [kind |-> "Encrypted"])}
    \cup {PacketFrame(U32(7), BROADCAST, data) : data \in ClassifyDatas}

ClassifyInit ==
    /\ pc = "classify"
    /\ outcome = "Running"
    /\ fault = "none"
    /\ cancelRequested = FALSE
    /\ stream = "configured"
    /\ disconnectCalled = FALSE
    /\ listening = TRUE
    /\ storage = StorageNew
    /\ file = [kind |-> "absent"]
    /\ now = 0
    /\ last_print = 0
    /\ lastRecv = 0
    /\ lastSave = "none"
    /\ console = ""
    /\ nEvents = 0
    /\ lastEvent = None
    /\ upsertLog = <<>>
    /\ calls = EmptyMap
    /\ received = None
    /\ frames = <<>>

\* a frame is classified by RecievedPacket::from and dispatched as main() does
ClassifyFrame ==
    /\ pc = "classify"
    /\ nEvents < MaxClassified
    /\ \E decoded \in ClassifyFrames :
          /\ received' = Some(RecievedPacketFrom(Some(decoded)))
          /\ lastEvent' = Some(decoded)
          /\ storage' = CASE decoded.payload_variant = "NodeInfo" ->
                               HandleNodeInfo(storage, decoded)
                          [] decoded.payload_variant = "Packet" ->
                               HandlePacket(storage, decoded.packet, now).storage
                          [] OTHER -> storage
    /\ nEvents' = nEvents + 1
    /\ UNCHANGED <<pc, outcome, fault, cancelRequested, stream, disconnectCalled, listening,
                   file, now, last_print, lastRecv, lastSave, console, upsertLog, calls, frames>>

\* recv() yields None: the classifier says so and main()'s loop is over
ClassifyClosed ==
    /\ pc = "classify"
    /\ received' = Some(RecievedPacketFrom(None))
    /\ lastEvent' = None
    /\ pc' = "closed"
    /\ UNCHANGED <<outcome, fault, cancelRequested, stream, disconnectCalled, listening,
                   storage, file, now, last_print, lastRecv, lastSave, console, nEvents,
                   upsertLog, calls, frames>>

ClassifyNext ==
    \/ ClassifyFrame
    \/ ClassifyClosed

ClassifySpec == ClassifyInit /\ [][ClassifyNext]_vars

\* C17: a Decoded packet on the text port is classified as a TextMessage that
\* carries the packet's from and to and the payload as UTF-8, or the
\* placeholder when the payload is not UTF-8.
C17_TextMessageOfEnvelope ==
    (pc = "classify" /\ IsText(lastEvent))
        => LET p == lastEvent.value.packet
               text == p.payload_variant.payload.utf8
           IN  received = Some([kind |-> "TextMessage",
                                from |-> p.from,
                                to |-> p.to,
                                msg |-> IF text.some THEN text.value ELSE "Non-utf8 msg"])

\* C20: main() changes the Directory on a frame exactly as the classifier's
\* answer for that frame says: NodeInfo(id, user) and users[id] becomes user,
\* anything else and the Directory stays as it was.
C20_ClassifierAgreesWithMain ==
    [][(pc = "classify" /\ nEvents' = nEvents + 1)
         => LET r == received'.value
            IN  storage'.users = IF r.kind = "NodeInfo"
                                 THEN MapInsert(storage.users, r.id, r.user)
                                 ELSE storage.users]_vars

\* node 7, filed as Bob by a NodeInfo frame, has announced itself as Alice in
\* a NodeInfo-port packet whose Data names another source
C20_Witness ==
    /\ pc = "classify"
    /\ nEvents = 2
    /\ IsNodeinfoDecodable(lastEvent)
    /\ lastEvent.value.packet.payload_variant.source = BROADCAST
    /\ received = Some([kind |-> "NodeInfo", id |-> U32(7), user |-> UserAlice])
    /\ storage.users = MapInsert(EmptyMap, U32(7), UserAlice)
    /\ "Bob:NodeinfoApp: Alice" \notin DOMAIN storage.stats

(***************************************************************************)
(* The stats key, with long names and texts that hold a ':'.               *)
(***************************************************************************)
MaxKeyOps == 3      \* Storage operations in a KeySpec run

\* long names are whatever their nodes announce
KeyUsers ==
    {[long_name |-> "7:TextMessageApp: x", short_name |-> "7"],
     [long_name |-> "Alice", short_name |-> "A"]}

\* labels main() builds: for an encrypted packet, and for the texts
\* "x:Encrypted" and "x"
KeyInfos == {"Encrypted", "TextMessageApp: x:Encrypted", "TextMessageApp: x"}

KeyInit ==
    /\ pc = "key"
    /\ outcome = "Running"
    /\ fault = "none"
    /\ cancelRequested = FALSE
    /\ stream = "none"
    /\ disconnectCalled = FALSE
    /\ listening = FALSE
    /\ storage = StorageNew
    /\ file = [kind |-> "absent"]
    /\ now = 0
    /\ last_print = 0
    /\ lastRecv = 0
    /\ lastSave = "none"
    /\ console = ""
    /\ nEvents = 0
    /\ lastEvent = None
    /\ upsertLog = <<>>
    /\ calls = EmptyMap
    /\ received = None
    /\ frames = <<>>

KeyUpsert ==
    /\ pc = "key"
    /\ nEvents < MaxKeyOps
    /\ \E id \in NodeNums, user \in KeyUsers :
          /\ storage' = users_insert(storage, id, user)
          /\ upsertLog' = Append(upsertLog, <<id, user>>)
    /\ nEvents' = nEvents + 1
    /\ UNCHANGED <<mainVars, now, calls>>

\* calls is kept per (name, label) pair here
KeyInsertStat ==
    /\ pc = "key"
    /\ nEvents < MaxKeyOps
    /\ \E from \in NodeNums, info \in KeyInfos :
          LET pair == <<long_name_of(storage, from), info>>
          IN  /\ storage' = insert_stat(storage, from, info, now)
              /\ calls' = MapInsert(calls, pair,
                              Append(IF pair \in DOMAIN calls THEN calls[pair] ELSE <<>>, now))
    /\ nEvents' = nEvents + 1
    /\ UNCHANGED <<mainVars, now, upsertLog>>

KeyNext ==
    \/ KeyUpsert
    \/ KeyInsertStat

KeySpec == KeyInit /\ [][KeyNext]_vars

\* C19: different (name, label) pairs are counted in different Stats entries,
\* also when a name or a label holds a ':': there are as many entries as
\* pairs counted, and each entry holds the count of one pair.
C19_KeyInjective ==
    pc = "key" =>
        /\ Cardinality(DOMAIN storage.stats) = Cardinality(DOMAIN calls)
        /\ \A pair \in DOMAIN calls :
              \E k \in DOMAIN storage.stats : storage.stats[k][1] = Len(calls[pair])

=============================================================================
